---- MODULE Spec2Model ----
(***************************************************************************)
(* TUID: timestamp-based identifiers (src/src/index.ts).                   *)
(*                                                                         *)
(* A text is a sequence of one-character strings.  A JavaScript number     *)
(* that holds an integer is a pair <<hi, lo>> standing for                 *)
(* hi * Limb + lo with 0 <= lo < Limb, because a 13-digit millisecond      *)
(* count does not fit the integers of the model checker.                   *)
(***************************************************************************)
EXTENDS Integers, Sequences, FiniteSets, TLC

\* A value that may be null is an empty tuple (null) or a tuple of one value.
Null == <<>>
Some(v) == <<v>>
NaN == <<"NaN">>

(***************************************************************************)
(* Numbers                                                                 *)
(***************************************************************************)
Limb == 10^6

NumOf(n) == <<n \div Limb, n % Limb>>
NumLT(a, b) == a[1] < b[1] \/ (a[1] = b[1] /\ a[2] < b[2])
NumLE(a, b) == a = b \/ NumLT(a, b)
NumAdd(a, n) == <<a[1] + ((a[2] + n) \div Limb), (a[2] + n) % Limb>>

(***************************************************************************)
(* Characters and texts                                                    *)
(***************************************************************************)
Digits == <<"0", "1", "2", "3", "4", "5", "6", "7", "8", "9">>
Lower == <<"a", "b", "c", "d", "e", "f", "g", "h", "i", "j", "k", "l", "m",
           "n", "o", "p", "q", "r", "s", "t", "u", "v", "w", "x", "y", "z">>
Upper == <<"A", "B", "C", "D", "E", "F", "G", "H", "I", "J", "K", "L", "M",
           "N", "O", "P", "Q", "R", "S", "T", "U", "V", "W", "X", "Y", "Z">>

Range(s) == {s[k] : k \in DOMAIN s}
IndexIn(s, c) == CHOOSE k \in DOMAIN s : s[k] = c

IsDigit(c) == c \in Range(Digits)
IsLowerAlnum(c) == c \in Range(Lower) \cup Range(Digits)

\* The UTF-16 code unit of a character, the order in which JavaScript
\* compares strings.
CharCode(c) ==
    IF c = " " THEN 32
    ELSE IF c = "-" THEN 45
    ELSE IF c = "." THEN 46
    ELSE IF c \in Range(Digits) THEN 47 + IndexIn(Digits, c)
    ELSE IF c \in Range(Upper) THEN 64 + IndexIn(Upper, c)
    ELSE 96 + IndexIn(Lower, c)

\* a <= b on JavaScript strings: code unit by code unit, a proper prefix first.
RECURSIVE TextLE(_, _)
TextLE(a, b) ==
    IF a = <<>> THEN TRUE
    ELSE IF b = <<>> THEN FALSE
    ELSE IF Head(a) = Head(b) THEN TextLE(Tail(a), Tail(b))
    ELSE CharCode(Head(a)) < CharCode(Head(b))

\* String.prototype.substring(from, to) with 0 <= from <= to: the characters
\* at the 0-based positions from .. to-1, clamped to the length.
Substring(s, from, to) ==
    SubSeq(s, from + 1, IF to < Len(s) THEN to ELSE Len(s))

\* String.prototype.split(sep) for a one-character separator.
RECURSIVE SplitFrom(_, _, _, _)
SplitFrom(s, sep, k, cur) ==
    IF k > Len(s) THEN <<cur>>
    ELSE IF s[k] = sep THEN <<cur>> \o SplitFrom(s, sep, k + 1, <<>>)
    ELSE SplitFrom(s, sep, k + 1, Append(cur, s[k]))

Split(s, sep) == SplitFrom(s, sep, 1, <<>>)

\* Array.prototype.join, as the template literal of generateV1 joins its parts.
RECURSIVE Join(_, _)
Join(parts, sep) ==
    IF parts = <<>> THEN <<>>
    ELSE IF Len(parts) = 1 THEN parts[1]
    ELSE parts[1] \o <<sep>> \o Join(Tail(parts), sep)

\* Decimal rendering of a non-negative integer below Limb, no leading zeros.
RECURSIVE IntToString(_)
IntToString(n) ==
    IF n < 10 THEN <<Digits[n + 1]>>
    ELSE IntToString(n \div 10) \o <<Digits[(n % 10) + 1]>>

LimbDigits == Len(IntToString(Limb - 1))

RECURSIVE ZeroPad(_, _)
ZeroPad(s, width) == IF Len(s) >= width THEN s ELSE ZeroPad(<<"0">> \o s, width)

\* Number to string, as `${x}` renders an integer-valued number.
NumToString(x) ==
    IF x[1] < 0 THEN <<"-">> \o IntToString(Limb - x[2])
    ELSE IF x[1] = 0 THEN IntToString(x[2])
    ELSE IntToString(x[1]) \o ZeroPad(IntToString(x[2]), LimbDigits)

\* parseInt(s, 10) on a text that starts with its digits: the value of the
\* longest run of leading digits, NaN when there is none.
RECURSIVE ParseDigits(_, _, _)
ParseDigits(s, k, acc) ==
    IF k > Len(s) \/ ~IsDigit(s[k]) THEN acc
    ELSE LET d == IndexIn(Digits, s[k]) - 1
             lo == acc[2] * 10 + d
         IN  ParseDigits(s, k + 1, <<acc[1] * 10 + (lo \div Limb), lo % Limb>>)

ParseInt(s) ==
    IF s = <<>> \/ ~IsDigit(s[1]) THEN NaN ELSE ParseDigits(s, 1, <<0, 0>>)

(***************************************************************************)
(* Regular expressions of the shape used by isValidTUID: a sequence of     *)
(* character classes, each repeated min..max times, optionally anchored.   *)
(***************************************************************************)
InClass(c, cls) ==
    IF cls = "\\d" THEN IsDigit(c)
    ELSE IF cls = "[a-z0-9]" THEN IsLowerAlnum(c)
    ELSE c = cls

Item(cls, min, max) == [cls |-> cls, min |-> min, max |-> max]

\* The positions just after a match of items[k..] that starts at pos.
RECURSIVE MatchEnds(_, _, _, _)
MatchEnds(items, k, s, pos) ==
    IF k > Len(items) THEN {pos}
    ELSE UNION { MatchEnds(items, k + 1, s, pos + n) :
                 n \in { m \in items[k].min .. items[k].max :
                         /\ pos + m - 1 <= Len(s)
                         /\ \A j \in pos .. (pos + m - 1) :
                                InClass(s[j], items[k].cls) } }

\* RegExp.prototype.test
RegExpTest(re, s) ==
    \E from \in (IF re.anchorStart THEN {1} ELSE 1 .. (Len(s) + 1)) :
        \E to \in MatchEnds(re.items, 1, s, from) :
            re.anchorEnd => to = Len(s) + 1

(***************************************************************************)
(* State                                                                   *)
(***************************************************************************)
VARIABLES
    sequence,       \* instance -> this.sequence
    lastTimestamp,  \* instance -> this.lastTimestamp
    machineId,      \* instance -> this.machineId
    pc,             \* instance -> "none" (not constructed), "idle", or "wait"
                    \*             (a generateV1 call is inside its overflow loop)
    timestamp,      \* instance -> the local `timestamp` of its latest call
    ret,            \* what the latest generateV1 call returned, and by whom
                    \* (by = 0: nothing yet, or the call has not returned)
    error,          \* the message of the Error the latest operation threw, or Null
    given,          \* <<instance, machineId>> handed to the constructor, when the
                    \* latest operation was a constructor call, else Null
    text,           \* the argument handed to the static functions
    result,         \* the latest static call and the value it returned
    mono,           \* instance -> no clock reading it saw was below the one before
    maxTs,          \* instance -> greatest timestamp it returned so far
    burst,          \* instance -> how many calls in a row, the latest included,
                    \*             first read the same clock value
    burstT,         \* instance -> that clock value
    burstReset,     \* instance -> the first call of that run found another
                    \*             lastTimestamp and reset the sequence
    log,            \* the identifiers returned since observation began, in order
    reads,          \* instance -> how many times its latest generateV1 call
                    \*             read the clock so far (counted up to MaxReads)
    count,          \* instance -> while no reading decreased: how many
                    \*             identifiers it returned with the greatest
                    \*             timestamp returned so far; 0 otherwise
    caller          \* thread -> where it is in its locked generateV1 call, and
                    \*           the call's local `timestamp`

vars == <<sequence, lastTimestamp, machineId, pc, timestamp, ret, error, given,
          text, result, mono, maxTs, burst, burstT, burstReset, log, reads,
          count, caller>>

(***************************************************************************)
(* Static functions                                                        *)
(***************************************************************************)
\* Variant: the pattern without its closing anchor.
v1PatternOpenEnd ==
    [anchorStart |-> TRUE,
     items |-> << Item("\\d", 13, 13), Item("-", 1, 1),
                  Item("\\d", 1, 4), Item("-", 1, 1),
                  Item("\\d", 1, 4), Item("-", 1, 1),
                  Item("[a-z0-9]", 4, 4), Item("-", 1, 1),
                  Item("[a-z0-9]", 4, 4) >>,
     anchorEnd |-> FALSE]

\* /^\d{13}-\d{1,4}-\d{1,4}-[a-z0-9]{4}-[a-z0-9]{4}$/
v1Pattern ==
    [anchorStart |-> TRUE,
     items |-> << Item("\\d", 13, 13), Item("-", 1, 1),
                  Item("\\d", 1, 4), Item("-", 1, 1),
                  Item("\\d", 1, 4), Item("-", 1, 1),
                  Item("[a-z0-9]", 4, 4), Item("-", 1, 1),
                  Item("[a-z0-9]", 4, 4) >>,
     anchorEnd |-> TRUE]

isValidTUID(tuid) == RegExpTest(v1Pattern, tuid)

\* Variant: any text of five dash-separated fields is taken for a v1.
getTUIDVersionByFields(tuid) ==
    IF Len(Split(tuid, "-")) = 5 THEN "v1" ELSE "unknown"

getTUIDVersion(tuid) == IF isValidTUID(tuid) THEN "v1" ELSE "unknown"

\* A missing element of the destructured array is undefined.
At(parts, k) == IF k \in DOMAIN parts THEN parts[k] ELSE <<>>

\* Variant: the text is split and decoded without the validity test.
parseTUIDUnchecked(tuid) ==
    LET parts == Split(tuid, "-")
    IN  Some([timestamp |-> ParseInt(At(parts, 1)),
              machineId |-> ParseInt(At(parts, 2)),
              sequence |-> ParseInt(At(parts, 3)),
              randomString1 |-> At(parts, 4),
              randomString2 |-> At(parts, 5)])

\* Variant: machineId and sequence are taken from each other's field.
parseTUIDSwapped(tuid) ==
    IF ~isValidTUID(tuid) THEN Null
    ELSE LET parts == Split(tuid, "-")
         IN  Some([timestamp |-> ParseInt(At(parts, 1)),
                   machineId |-> ParseInt(At(parts, 3)),
                   sequence |-> ParseInt(At(parts, 2)),
                   randomString1 |-> At(parts, 4),
                   randomString2 |-> At(parts, 5)])

parseTUID(tuid) ==
    IF ~isValidTUID(tuid) THEN Null
    ELSE LET parts == Split(tuid, "-")
         IN  Some([timestamp |-> ParseInt(At(parts, 1)),
                   machineId |-> ParseInt(At(parts, 2)),
                   sequence |-> ParseInt(At(parts, 3)),
                   randomString1 |-> At(parts, 4),
                   randomString2 |-> At(parts, 5)])

(***************************************************************************)
(* The environment: instances, the clock and the random source             *)
(***************************************************************************)
Instances == {1, 2}

MachineIdInputs == {-1, 0, 1023, 1024}

\* Date.now(): the millisecond of the repository's own example identifier
\* and the MaxTicks - 1 milliseconds after it.
MaxTicks == 3
EpochHi == 1609459
EpochLo == 200000
Epoch == <<EpochHi, EpochLo>>
ClockValues == { NumAdd(Epoch, d) : d \in 0 .. (MaxTicks - 1) }

\* Math.random(): a value in [0, 1), given by the digits of its base-36
\* fraction (no trailing zero; the empty fraction is 0).  0.i is one half.
TypicalRandom == <<"4", "f", "z", "y", "o", "8", "2">>
RandomValues == { TypicalRandom, <<"i">> }

\* Number.prototype.toString(36) of such a value.
ToString36(frac) == IF frac = <<>> THEN <<"0">> ELSE <<"0", ".">> \o frac

\* Math.random().toString(36).substring(2, 6)
RandomString(frac) == Substring(ToString36(frac), 2, 6)

(***************************************************************************)
(* TUIDGenerator                                                           *)
(***************************************************************************)
MaxMachineId == 1023
SequenceMask == 4095
NoTimestamp == NumOf(-1)      \* private lastTimestamp: number = -1
NoMachineId == 0 - 1          \* machineId of an instance that does not exist
MaxReads == 3                 \* clock readings of one call are counted up to here
NoReturn == [by |-> 0, timestamp |-> NoTimestamp, sequence |-> 0, text |-> <<>>]

\* Variant: the mask is not applied.
BitAndLeft(a, b) == a

\* a & b on non-negative integers
RECURSIVE BitAnd(_, _)
BitAnd(a, b) ==
    IF a = 0 \/ b = 0 THEN 0
    ELSE 2 * BitAnd(a \div 2, b \div 2) + (IF a % 2 = 1 /\ b % 2 = 1 THEN 1 ELSE 0)

\* Variant: the upper limit itself is refused.
RejectedAtLimit(m) == m < 0 \/ m >= MaxMachineId

\* constructor(machineId)
Rejected(m) == m < 0 \/ m > MaxMachineId

Construct(i, m) ==
    /\ pc[i] = "none"
    /\ given' = Some(<<i, m>>)
    /\ IF Rejected(m)
       THEN /\ error' = Some("Machine ID must be between 0 and 1023.")
            /\ UNCHANGED <<sequence, lastTimestamp, machineId, pc, mono, maxTs,
                           burst, burstT, burstReset, reads, count>>
       ELSE /\ error' = Null
            /\ sequence' = [sequence EXCEPT ![i] = 0]
            /\ lastTimestamp' = [lastTimestamp EXCEPT ![i] = NoTimestamp]
            /\ machineId' = [machineId EXCEPT ![i] = m]
            /\ pc' = [pc EXCEPT ![i] = "idle"]
            /\ mono' = [mono EXCEPT ![i] = TRUE]
            /\ maxTs' = [maxTs EXCEPT ![i] = NoTimestamp]
            /\ burst' = [burst EXCEPT ![i] = 0]
            /\ burstT' = [burstT EXCEPT ![i] = NoTimestamp]
            /\ burstReset' = [burstReset EXCEPT ![i] = FALSE]
            /\ reads' = [reads EXCEPT ![i] = 0]
            /\ count' = [count EXCEPT ![i] = 0]
    /\ UNCHANGED <<timestamp, ret, text, result, caller>>

\* `${timestamp}-${this.machineId}-${this.sequence}-${randomString1}-${randomString2}`
Compose(ts, m, seq, rs1, rs2) ==
    Join(<<NumToString(ts), NumToString(NumOf(m)), NumToString(NumOf(seq)),
           rs1, rs2>>, "-")

\* Variant: an equal reading adds 2 to the sequence.
NextSequenceSkip(seq, same) ==
    IF same THEN BitAnd(seq + 2, SequenceMask) ELSE 0

\* Variant: the sequence is not incremented on an equal reading.
NextSequenceFrozen(seq, same) == IF same THEN seq ELSE 0

\* Variant: a reading other than this.lastTimestamp leaves the sequence as
\* it is.
NextSequenceKeep(seq, same) ==
    IF same THEN BitAnd(seq + 1, SequenceMask) ELSE seq

\* this.sequence after the branch on timestamp === this.lastTimestamp
NextSequence(seq, same) ==
    IF same THEN BitAnd(seq + 1, SequenceMask) ELSE 0

\* Variant: the loop is left as soon as the clock equals this.lastTimestamp.
MustWaitBelow(ts, last) == NumLT(ts, last)

\* Variant: the loop test never fails.
MustWaitAlways(ts, last) == TRUE

\* while (timestamp <= this.lastTimestamp)
MustWait(ts, last) == NumLE(ts, last)

\* Variant: lastTimestamp is one field shared by all instances (static).
FinishShared(i, ts, seq, r1, r2) ==
    /\ lastTimestamp' = [j \in Instances |-> ts]
    /\ pc' = [pc EXCEPT ![i] = "idle"]
    /\ ret' = [by |-> i, timestamp |-> ts, sequence |-> seq,
               text |-> Compose(ts, machineId[i], seq,
                                RandomString(r1), RandomString(r2))]
    /\ maxTs' = [maxTs EXCEPT ![i] = IF NumLT(@, ts) THEN ts ELSE @]
    /\ count' = [count EXCEPT ![i] =
                    IF ~mono'[i] THEN 0
                    ELSE IF ts = maxTs[i]
                         THEN (IF @ <= SequenceMask + 1 THEN @ + 1 ELSE @)
                    ELSE IF NumLT(maxTs[i], ts) THEN 1
                    ELSE 0]

\* The tail of generateV1 from `this.lastTimestamp = timestamp` to the return.
Finish(i, ts, seq, r1, r2) ==
    /\ lastTimestamp' = [lastTimestamp EXCEPT ![i] = ts]
    /\ pc' = [pc EXCEPT ![i] = "idle"]
    /\ ret' = [by |-> i, timestamp |-> ts, sequence |-> seq,
               text |-> Compose(ts, machineId[i], seq,
                                RandomString(r1), RandomString(r2))]
    /\ maxTs' = [maxTs EXCEPT ![i] = IF NumLT(@, ts) THEN ts ELSE @]
    /\ count' = [count EXCEPT ![i] =
                    IF ~mono'[i] THEN 0
                    ELSE IF ts = maxTs[i]
                         THEN (IF @ <= SequenceMask + 1 THEN @ + 1 ELSE @)
                    ELSE IF NumLT(maxTs[i], ts) THEN 1
                    ELSE 0]

\* Variant: on overflow the call does not wait, it moves one millisecond
\* ahead of the clock.
OverflowAhead(i, now, r1, r2) == Finish(i, NumAdd(now, 1), 0, r1, r2)

\* Variant: on overflow the call does not wait.
OverflowNoWait(i, now, r1, r2) == Finish(i, now, 0, r1, r2)

\* On sequence overflow the call reaches the loop with timestamp equal to
\* this.lastTimestamp: the first test of the loop holds and the call waits.
Overflow(i, now, r1, r2) ==
    IF MustWait(now, lastTimestamp[i])
    THEN /\ pc' = [pc EXCEPT ![i] = "wait"]
         /\ ret' = NoReturn
         /\ UNCHANGED <<lastTimestamp, maxTs, count>>
    ELSE Finish(i, now, 0, r1, r2)

\* generateV1(), from its first clock reading up to the return or, on
\* sequence overflow, up to the first test of the loop.  Math.random()
\* returns a value of the set random.
GenerateV1(i, random) ==
    /\ pc[i] = "idle"
    /\ \E now \in ClockValues, r1 \in random, r2 \in random :
        LET same == now = lastTimestamp[i]
            seq == NextSequence(sequence[i], same)
        IN  /\ timestamp' = [timestamp EXCEPT ![i] = now]
            /\ sequence' = [sequence EXCEPT ![i] = seq]
            /\ mono' = [mono EXCEPT ![i] = @ /\ NumLE(timestamp[i], now)]
            /\ reads' = [reads EXCEPT ![i] = 1]
            /\ burst' = [burst EXCEPT ![i] =
                            IF now # burstT[i] THEN 1
                            ELSE IF @ <= SequenceMask + 2 THEN @ + 1
                            ELSE @]
            /\ burstT' = [burstT EXCEPT ![i] = now]
            /\ burstReset' = [burstReset EXCEPT ![i] =
                                 IF now # burstT[i] THEN ~same ELSE @]
            /\ IF same /\ seq = 0
               THEN Overflow(i, now, r1, r2)
               ELSE Finish(i, now, seq, r1, r2)
    /\ error' = Null
    /\ given' = Null
    /\ UNCHANGED <<machineId, text, result, caller>>

\* Variant: the loop is left on any reading other than this.lastTimestamp,
\* a lower one included.
AwaitNextMillisecondOnChange(i, random) ==
    /\ pc[i] = "wait"
    /\ \E now \in ClockValues, r1 \in random, r2 \in random :
        /\ timestamp' = [timestamp EXCEPT ![i] = now]
        /\ mono' = [mono EXCEPT ![i] = @ /\ NumLE(timestamp[i], now)]
        /\ IF now = lastTimestamp[i]
           THEN UNCHANGED <<lastTimestamp, pc, ret, maxTs, count>>
           ELSE Finish(i, now, sequence[i], r1, r2)
    /\ reads' = [reads EXCEPT ![i] = IF @ < MaxReads THEN @ + 1 ELSE @]
    /\ UNCHANGED <<sequence, machineId, error, given, text, result,
                   burst, burstT, burstReset, caller>>

\* One more turn of the overflow loop: timestamp = this.currentTimestamp(),
\* then the loop test, then (when it fails) the rest of generateV1.
AwaitNextMillisecond(i, random) ==
    /\ pc[i] = "wait"
    /\ \E now \in ClockValues, r1 \in random, r2 \in random :
        /\ timestamp' = [timestamp EXCEPT ![i] = now]
        /\ mono' = [mono EXCEPT ![i] = @ /\ NumLE(timestamp[i], now)]
        /\ IF MustWait(now, lastTimestamp[i])
           THEN UNCHANGED <<lastTimestamp, pc, ret, maxTs, count>>
           ELSE Finish(i, now, sequence[i], r1, r2)
    /\ reads' = [reads EXCEPT ![i] = IF @ < MaxReads THEN @ + 1 ELSE @]
    /\ UNCHANGED <<sequence, machineId, error, given, text, result,
                   burst, burstT, burstReset, caller>>

(***************************************************************************)
(* Specification of one instance, from construction on                     *)
(***************************************************************************)
NoResult == [op |-> "none", value |-> Null]

\* The threads that call generateV1 of instance 1 under a lock; none of them
\* is inside a call.
Threads == {1, 2}
NoCallers ==
    [c \in Threads |-> [at |-> "out", timestamp |-> NoTimestamp, whole |-> FALSE]]

Init ==
    /\ sequence = [i \in Instances |-> 0]
    /\ lastTimestamp = [i \in Instances |-> NoTimestamp]
    /\ machineId = [i \in Instances |-> NoMachineId]
    /\ pc = [i \in Instances |-> "none"]
    /\ timestamp = [i \in Instances |-> NoTimestamp]
    /\ mono = [i \in Instances |-> TRUE]
    /\ maxTs = [i \in Instances |-> NoTimestamp]
    /\ burst = [i \in Instances |-> 0]
    /\ burstT = [i \in Instances |-> NoTimestamp]
    /\ burstReset = [i \in Instances |-> FALSE]
    /\ ret = NoReturn
    /\ error = Null
    /\ given = Null
    /\ text = <<>>
    /\ result = NoResult
    /\ log = <<>>
    /\ reads = [i \in Instances |-> 0]
    /\ count = [i \in Instances |-> 0]
    /\ caller = NoCallers

\* One instance, given the largest machine id or the first one beyond it, and
\* called without bound: long enough for the sequence to overflow.  The
\* random source returns a value with four or more base-36 digits.
New == \E m \in {MaxMachineId, MaxMachineId + 1} : Construct(1, m) /\ UNCHANGED log
Generate == GenerateV1(1, {TypicalRandom}) /\ UNCHANGED log
Await == AwaitNextMillisecond(1, {TypicalRandom}) /\ UNCHANGED log

Next == New \/ Generate \/ Await

Spec == Init /\ [][Next]_vars

\* The same, with the scheduling generateV1 has: the loop of a waiting call
\* keeps turning (the thread is never suspended inside it), and the clock
\* gives a reading above lastTimestamp again and again while one exists.
Advance == Await /\ NumLT(lastTimestamp[1], timestamp'[1])

SpecLive == Spec /\ WF_vars(Await) /\ SF_vars(Advance)

(***************************************************************************)
(* Specification that keeps every identifier returned: at most MaxCalls    *)
(* calls, observed from construction or from a state that Spec reaches     *)
(* after StartSequences + 1 calls in the first millisecond.  The random    *)
(* source returns any of RandomValues.                                     *)
(***************************************************************************)
MaxCalls == 3
StartSequences == {8, SequenceMask - 1}

Entry(r) == [timestamp |-> r.timestamp, sequence |-> r.sequence, text |-> r.text]

Resumed(seq) ==
    /\ sequence = [i \in Instances |-> IF i = 1 THEN seq ELSE 0]
    /\ lastTimestamp = [i \in Instances |-> IF i = 1 THEN Epoch ELSE NoTimestamp]
    /\ machineId = [i \in Instances |-> IF i = 1 THEN MaxMachineId ELSE NoMachineId]
    /\ pc = [i \in Instances |-> IF i = 1 THEN "idle" ELSE "none"]
    /\ timestamp = [i \in Instances |-> IF i = 1 THEN Epoch ELSE NoTimestamp]
    /\ mono = [i \in Instances |-> TRUE]
    /\ maxTs = [i \in Instances |-> IF i = 1 THEN Epoch ELSE NoTimestamp]
    /\ burst = [i \in Instances |-> IF i = 1 THEN seq + 1 ELSE 0]
    /\ burstT = [i \in Instances |-> IF i = 1 THEN Epoch ELSE NoTimestamp]
    /\ burstReset = [i \in Instances |-> i = 1]
    /\ ret = [by |-> 1, timestamp |-> Epoch, sequence |-> seq,
              text |-> Compose(Epoch, MaxMachineId, seq,
                               RandomString(TypicalRandom),
                               RandomString(TypicalRandom))]
    /\ error = Null
    /\ given = Null
    /\ text = <<>>
    /\ result = NoResult
    /\ log = <<>>
    /\ reads = [i \in Instances |-> IF i = 1 THEN 1 ELSE 0]
    /\ count = [i \in Instances |-> IF i = 1 THEN seq + 1 ELSE 0]
    /\ caller = NoCallers

InitLog ==
    \/ Init
    \/ \E seq \in StartSequences : Resumed(seq)

NewLogged == \E m \in MachineIdInputs : Construct(1, m) /\ UNCHANGED log

GenerateLogged ==
    /\ Len(log) < MaxCalls
    /\ GenerateV1(1, RandomValues)
    /\ log' = IF ret'.by # 0 THEN Append(log, Entry(ret')) ELSE log

AwaitLogged ==
    /\ AwaitNextMillisecond(1, RandomValues)
    /\ log' = IF ret'.by # 0 THEN Append(log, Entry(ret')) ELSE log

NextLog == NewLogged \/ GenerateLogged \/ AwaitLogged

SpecLog == InitLog /\ [][NextLog]_vars

(***************************************************************************)
(* Specification of threads that call generateV1 of instance 1 under a     *)
(* mutual-exclusion lock.  A call takes the lock before its first clock    *)
(* reading and gives it up either after `this.lastTimestamp = timestamp`   *)
(* or, when it holds the lock for the whole call, after the return value   *)
(* is composed.  Between taking and giving up the lock no other thread     *)
(* runs a statement of generateV1.  At most MaxCalls calls are made.       *)
(***************************************************************************)
LockFree == \A c \in Threads : caller[c].at = "out" \/
                                (caller[c].at = "compose" /\ ~caller[c].whole)

CallsBegun == Len(log) + Cardinality({c \in Threads : caller[c].at # "out"})

\* generateV1 from its first clock reading to `this.lastTimestamp =
\* timestamp` or, on sequence overflow, to the first test of the loop.
LockedSteps(c) ==
    /\ caller[c].at = "out"
    /\ pc[1] = "idle"
    /\ LockFree
    /\ CallsBegun < MaxCalls
    /\ \E now \in ClockValues, whole \in BOOLEAN :
        LET same == now = lastTimestamp[1]
            seq == NextSequence(sequence[1], same)
        IN  /\ timestamp' = [timestamp EXCEPT ![1] = now]
            /\ sequence' = [sequence EXCEPT ![1] = seq]
            /\ mono' = [mono EXCEPT ![1] = @ /\ NumLE(timestamp[1], now)]
            /\ IF same /\ seq = 0 /\ MustWait(now, lastTimestamp[1])
               THEN /\ pc' = [pc EXCEPT ![1] = "wait"]
                    /\ caller' = [caller EXCEPT ![c] =
                           [at |-> "wait", timestamp |-> now, whole |-> whole]]
                    /\ UNCHANGED lastTimestamp
               ELSE /\ lastTimestamp' = [lastTimestamp EXCEPT ![1] = now]
                    /\ caller' = [caller EXCEPT ![c] =
                           [at |-> "compose", timestamp |-> now, whole |-> whole]]
                    /\ UNCHANGED pc
    /\ error' = Null
    /\ given' = Null
    /\ UNCHANGED <<machineId, ret, text, result, maxTs, burst, burstT,
                   burstReset, log, reads, count>>

\* One more turn of the overflow loop, the lock held.
LockedAwait(c) ==
    /\ caller[c].at = "wait"
    /\ \E now \in ClockValues :
        /\ timestamp' = [timestamp EXCEPT ![1] = now]
        /\ mono' = [mono EXCEPT ![1] = @ /\ NumLE(timestamp[1], now)]
        /\ IF MustWait(now, lastTimestamp[1])
           THEN UNCHANGED <<lastTimestamp, pc, caller>>
           ELSE /\ lastTimestamp' = [lastTimestamp EXCEPT ![1] = now]
                /\ pc' = [pc EXCEPT ![1] = "idle"]
                /\ caller' = [caller EXCEPT ![c].at = "compose",
                                            ![c].timestamp = now]
    /\ UNCHANGED <<sequence, machineId, ret, error, given, text, result,
                   maxTs, burst, burstT, burstReset, log, reads, count>>

\* The two random strings and the return value, composed from the local
\* `timestamp` and from this.machineId and this.sequence as they are now.
ComposeStep(c) ==
    /\ caller[c].at = "compose"
    /\ \E r1 \in {TypicalRandom}, r2 \in {TypicalRandom} :
        ret' = [by |-> 1, timestamp |-> caller[c].timestamp,
                sequence |-> sequence[1],
                text |-> Compose(caller[c].timestamp, machineId[1], sequence[1],
                                 RandomString(r1), RandomString(r2))]
    /\ log' = Append(log, [timestamp |-> ret'.timestamp,
                           sequence |-> ret'.sequence,
                           text |-> ret'.text,
                           thread |-> c,
                           whole |-> caller[c].whole])
    /\ maxTs' = [maxTs EXCEPT ![1] =
                    IF NumLT(@, ret'.timestamp) THEN ret'.timestamp ELSE @]
    /\ caller' = [caller EXCEPT ![c] = NoCallers[c]]
    /\ UNCHANGED <<sequence, lastTimestamp, machineId, pc, timestamp, error,
                   given, text, result, mono, burst, burstT, burstReset,
                   reads, count>>

NewLocked == Construct(1, MaxMachineId) /\ UNCHANGED log

NextLocked ==
    \/ NewLocked
    \/ \E c \in Threads : LockedSteps(c)
    \/ \E c \in Threads : LockedAwait(c)
    \/ \E c \in Threads : ComposeStep(c)

SpecLocked == InitLog /\ [][NextLocked]_vars

(***************************************************************************)
(* Specification of the static functions: a text is drawn from TextInputs  *)
(* and isValidTUID, getTUIDVersion and parseTUID are called on it.         *)
(***************************************************************************)
\* First fields: the example timestamp, 13 digits with leading zeros, 12 and
\* 14 digits, a letter among 13 characters.
TimestampFields ==
    { NumToString(Epoch), ZeroPad(<<"4", "2">>, 13), ZeroPad(<<>>, 12),
      NumToString(Epoch) \o <<"0">>, <<"1", "6", "0", "9", "4", "5", "9", "2", "0", "0", "0", "0", "x">> }
MachineIdFields == { <<"1">>, <<"1", "0", "2", "3">>, <<"1", "0", "2", "4">>, <<"9", "9", "9", "9">>, <<"0", "0", "0", "5">>, <<"1", "2", "3", "4", "5">>, <<>> }
SequenceFields == { <<"0">>, <<"1", "0">>, <<"4", "0", "9", "5">>, <<"4", "0", "9", "6">>, <<"0", "0", "7">>, <<"1", "0", "0", "0", "0">> }
RandomFields1 == { <<"a", "b", "c", "d">>, <<"a", "1", "b", "2">>, <<"A", "b", "c", "d">>, <<"a", "b", "c">>, <<"a", "b", "c", "d", "e">> }
RandomFields2 == { <<"e", "f", "g", "h">>, <<"0", "0", "0", "0">>, <<"E", "F", "9", "H">> }
Prefixes == { <<>>, <<"x">> }
Suffixes == { <<>>, <<" ">>, <<"-", "z">> }

\* 'invalid-tuid' and '0-0-0-invalid-tuid' of the repository's tests, the
\* empty text, four fields, six fields, and underscores for dashes.
OtherTexts ==
    { <<"i", "n", "v", "a", "l", "i", "d", "-", "t", "u", "i", "d">>,
      <<"0", "-", "0", "-", "0", "-", "i", "n", "v", "a", "l", "i", "d", "-", "t", "u", "i", "d">>,
      <<>>,
      <<"1", "6", "0", "9", "4", "5", "9", "2", "0", "0", "0", "0", "0", "-", "1", "-", "0", "-", "a", "b", "c", "d">>,
      <<"1", "6", "0", "9", "4", "5", "9", "2", "0", "0", "0", "0", "0", "-", "1", "-", "0", "-", "a", "b", "c", "d", "-", "e", "f", "g", "h", "-", "i", "j", "k", "l">>,
      <<"1", "6", "0", "9", "4", "5", "9", "2", "0", "0", "0", "0", "0", "_", "1", "_", "0", "_", "a", "b", "c", "d", "_", "e", "f", "g", "h">> }

TextInputs ==
    { p \o Join(<<a, b, c, d, e>>, "-") \o q :
        a \in TimestampFields, b \in MachineIdFields, c \in SequenceFields,
        d \in RandomFields1, e \in RandomFields2, p \in Prefixes, q \in Suffixes }
    \cup OtherTexts

InitText ==
    /\ sequence = [i \in Instances |-> 0]
    /\ lastTimestamp = [i \in Instances |-> NoTimestamp]
    /\ machineId = [i \in Instances |-> NoMachineId]
    /\ pc = [i \in Instances |-> "none"]
    /\ timestamp = [i \in Instances |-> NoTimestamp]
    /\ mono = [i \in Instances |-> TRUE]
    /\ maxTs = [i \in Instances |-> NoTimestamp]
    /\ burst = [i \in Instances |-> 0]
    /\ burstT = [i \in Instances |-> NoTimestamp]
    /\ burstReset = [i \in Instances |-> FALSE]
    /\ ret = NoReturn
    /\ error = Null
    /\ given = Null
    /\ text \in TextInputs
    /\ result = NoResult
    /\ log = <<>>
    /\ reads = [i \in Instances |-> 0]
    /\ count = [i \in Instances |-> 0]
    /\ caller = NoCallers

\* No statement of the three functions throws, so each call leaves no Error.
CallIsValidTUID ==
    /\ result' = [op |-> "isValidTUID", value |-> Some(isValidTUID(text))]
    /\ error' = Null
    /\ given' = Null
    /\ UNCHANGED <<sequence, lastTimestamp, machineId, pc, timestamp, ret,
                   text, mono, maxTs, burst, burstT, burstReset, log, reads,
                   count, caller>>

CallGetTUIDVersion ==
    /\ result' = [op |-> "getTUIDVersion", value |-> Some(getTUIDVersion(text))]
    /\ error' = Null
    /\ given' = Null
    /\ UNCHANGED <<sequence, lastTimestamp, machineId, pc, timestamp, ret,
                   text, mono, maxTs, burst, burstT, burstReset, log, reads,
                   count, caller>>

CallParseTUID ==
    /\ result' = [op |-> "parseTUID", value |-> Some(parseTUID(text))]
    /\ error' = Null
    /\ given' = Null
    /\ UNCHANGED <<sequence, lastTimestamp, machineId, pc, timestamp, ret,
                   text, mono, maxTs, burst, burstT, burstReset, log, reads,
                   count, caller>>

NextText == CallIsValidTUID \/ CallGetTUIDVersion \/ CallParseTUID

SpecText == InitText /\ [][NextText]_vars

(***************************************************************************)
(* Specification of two instances and the static functions together: the   *)
(* instances are constructed and called in any order, at most FrameCalls   *)
(* calls in all, and between their steps a text is handed to the static    *)
(* functions.  Instance 1 is new or has returned SequenceMask identifiers  *)
(* in the first millisecond; instance i is given machine id i.             *)
(***************************************************************************)
FrameCalls == 3

\* The example identifier of the repository's tests and 'invalid-tuid'.
FrameTexts ==
    { Compose(Epoch, 1, 0, <<"a", "b", "c", "d">>, <<"e", "f", "g", "h">>),
      <<"i", "n", "v", "a", "l", "i", "d", "-", "t", "u", "i", "d">> }

InitFrame == Init \/ Resumed(SequenceMask - 1)

Receive ==
    /\ text' \in FrameTexts
    /\ UNCHANGED <<sequence, lastTimestamp, machineId, pc, timestamp, ret,
                   error, given, result, mono, maxTs, burst, burstT,
                   burstReset, log, reads, count, caller>>

NewFramed ==
    \E i \in Instances : Construct(i, i) /\ UNCHANGED log

GenerateFramed ==
    \E i \in Instances :
        /\ Len(log) < FrameCalls
        /\ GenerateV1(i, {TypicalRandom})
        /\ log' = IF pc'[i] = "idle" THEN Append(log, Entry(ret')) ELSE log

AwaitFramed ==
    \E i \in Instances :
        /\ AwaitNextMillisecond(i, {TypicalRandom})
        /\ log' = IF pc'[i] = "idle" THEN Append(log, Entry(ret')) ELSE log

NextFrame ==
    \/ NewFramed \/ GenerateFramed \/ AwaitFramed
    \/ Receive \/ CallIsValidTUID \/ CallGetTUIDVersion \/ CallParseTUID

SpecFrame == InitFrame /\ [][NextFrame]_vars

(***************************************************************************)
(* Claims                                                                  *)
(***************************************************************************)
Pair(e) == <<e.timestamp, e.sequence>>

\* C1: whatever the clock does, backward readings included, no two
\* identifiers returned by one instance have the same (timestamp, sequence).
C1_PairsDistinct ==
    \A a, b \in 1 .. Len(log) : a # b => Pair(log[a]) # Pair(log[b])

\* C2: while the clock readings an instance saw never decreased, the
\* timestamp it returns is at least every timestamp it returned before
\* (maxTs is their maximum, the returned one included).
C2_TimestampsNonDecreasing ==
    \A i \in Instances :
        (ret.by = i /\ mono[i]) => NumLE(maxTs[i], ret.timestamp)

\* C2 witness: under a non-decreasing clock a call returned a later
\* millisecond than the first one and then another identifier in it.
C2_Witness ==
    /\ ret.by = 1 /\ mono[1]
    /\ NumLT(Epoch, ret.timestamp) /\ ret.sequence = 10

\* C3: while the clock readings never decreased, the text of an identifier
\* returned earlier is lexicographically at most the text of every identifier
\* returned later, sequence 9 followed by sequence 10 included.
C3_TextsNonDecreasing ==
    mono[1] =>
        \A a, b \in 1 .. Len(log) : a < b => TextLE(log[a].text, log[b].text)

\* What C4 says of the latest call of instance i, the n-th call in a row
\* that first read the clock value T.
RunCounts(i) ==
    /\ burst[i] \in 1 .. (SequenceMask + 1) =>
            ret.timestamp = burstT[i] /\ ret.sequence = burst[i] - 1
    /\ burst[i] = SequenceMask + 2 =>
            NumLT(burstT[i], ret.timestamp) /\ ret.sequence = 0

\* C4 (as claimed): of N calls in a row that all first read the same clock
\* value T, call number n <= 4096 returns timestamp T and sequence n - 1,
\* and call number 4097 returns a timestamp above T with sequence 0.
C4_RunCounts ==
    \A i \in Instances : ret.by = i => RunCounts(i)

\* C4 (amended): the same, for a run whose first call found lastTimestamp
\* different from T.
C4_RunFromResetCounts ==
    \A i \in Instances : (ret.by = i /\ burstReset[i]) => RunCounts(i)

\* C4 witness: the 4097th call of such a run has returned.
C4_Witness == ret.by = 1 /\ burstReset[1] /\ burst[1] = SequenceMask + 2

\* C5: a constructor call with machineId m yields an instance exactly when
\* 0 <= m <= 1023, and the instance starts with sequence 0, lastTimestamp -1
\* and machineId m; otherwise it throws and there is no instance.
C5_Construction ==
    \A i \in Instances, m \in MachineIdInputs :
        given = Some(<<i, m>>) =>
            IF 0 <= m /\ m <= 1023
            THEN /\ error = Null
                 /\ pc[i] = "idle"
                 /\ sequence[i] = 0
                 /\ lastTimestamp[i] = <<0 - 1, Limb - 1>>
                 /\ machineId[i] = m
            ELSE /\ error # Null
                 /\ pc[i] = "none"

\* C5 witness: the constructor was given 1023 and the instance exists.
C5_Witness == given = Some(<<1, 1023>>) /\ pc[1] = "idle"

\* A call hits sequence overflow when it reads now = lastTimestamp while
\* sequence is 4095.
C12_NoOverflowReadsOnce ==
    [][\A i \in Instances :
        (/\ pc[i] = "idle"
         /\ sequence'[i] # sequence[i] \/ lastTimestamp'[i] # lastTimestamp[i]
         /\ ~(timestamp'[i] = lastTimestamp[i] /\ sequence[i] = 4095))
            => /\ pc'[i] = "idle"
               /\ ret'.by = i
               /\ ret'.timestamp = timestamp'[i]
               /\ reads'[i] = 1
               /\ error' = Null]_vars

C12_ReturnsOnlyAbove ==
    [][\A i \in Instances :
        (pc[i] = "wait" /\ pc'[i] # "wait")
            => /\ NumLT(lastTimestamp[i], timestamp'[i])
               /\ pc'[i] = "idle"
               /\ ret'.by = i
               /\ error' = Null]_vars

C12_WaitEnds ==
    \A i \in Instances :
        (pc[i] = "wait" /\ \E c \in ClockValues : NumLT(lastTimestamp[i], c))
            ~> (pc[i] = "idle" /\ ret.by = i /\ error = Null)

\* C12: a call that does not hit sequence overflow reads the clock once and
\* returns at once; a waiting call returns only on a reading above
\* lastTimestamp, so it never returns if the clock never gives one; and when
\* the loop keeps turning and the clock keeps giving such readings, the
\* waiting call returns, without an Error.
C12_Termination ==
    C12_NoOverflowReadsOnce /\ C12_ReturnsOnlyAbove /\ C12_WaitEnds

\* C12 witness: a call that hit sequence overflow returned after it read the
\* clock MaxReads times or more.
C12_Witness ==
    /\ ret.by = 1 /\ pc[1] = "idle" /\ reads[1] = MaxReads
    /\ burst[1] = SequenceMask + 2

\* C6: every identifier generateV1 returns passes isValidTUID, and parseTUID
\* gives back the instance's machineId, sequence and lastTimestamp.
C6_RoundTrip ==
    \A i \in Instances :
        ret.by = i =>
            /\ isValidTUID(ret.text)
            /\ parseTUID(ret.text) # Null
            /\ parseTUID(ret.text)[1].machineId = NumOf(machineId[i])
            /\ parseTUID(ret.text)[1].sequence = NumOf(sequence[i])
            /\ parseTUID(ret.text)[1].timestamp = lastTimestamp[i]

AllDigits(f) == \A k \in DOMAIN f : f[k] \in Range(Digits)
AllLowerAlnum(f) == \A k \in DOMAIN f : f[k] \in Range(Digits) \cup Range(Lower)

\* The shape C7 describes, read off the dash-separated fields of the text.
WellShaped(t) ==
    LET f == Split(t, "-")
    IN  /\ Len(f) = 5
        /\ Len(f[1]) = 13 /\ AllDigits(f[1])
        /\ Len(f[2]) \in 1 .. 4 /\ AllDigits(f[2])
        /\ Len(f[3]) \in 1 .. 4 /\ AllDigits(f[3])
        /\ Len(f[4]) = 4 /\ AllLowerAlnum(f[4])
        /\ Len(f[5]) = 4 /\ AllLowerAlnum(f[5])

\* C7: isValidTUID(text) is true exactly when the whole text is 13 digits,
\* 1 to 4 digits, 1 to 4 digits and two groups of 4 characters of [a-z0-9],
\* joined by dashes, with nothing before or after.
C7_ValidIffWellShaped ==
    result.op = "isValidTUID" => (result.value = Some(TRUE) <=> WellShaped(text))

\* C7 witness: a text whose machineId field is 9999 and whose sequence field
\* is 4096 was accepted.
C7_Witness ==
    /\ result = [op |-> "isValidTUID", value |-> Some(TRUE)]
    /\ Split(text, "-")[2] = <<"9", "9", "9", "9">>
    /\ Split(text, "-")[3] = <<"4", "0", "9", "6">>

\* C8: getTUIDVersion(text) is 'v1' when isValidTUID(text) is true and
\* 'unknown' when it is false, and nothing else.
C8_VersionIffValid ==
    result.op = "getTUIDVersion" =>
        /\ result.value \in {Some("v1"), Some("unknown")}
        /\ result.value = Some("v1") <=> isValidTUID(text)

\* C8 witness: a text of five fields that is no valid identifier was
\* classified 'unknown'.
C8_Witness ==
    /\ result = [op |-> "getTUIDVersion", value |-> Some("unknown")]
    /\ Len(Split(text, "-")) = 5

\* C9: parseTUID(text) is null exactly when isValidTUID(text) is false, and
\* neither function throws.
C9_NullIffInvalid ==
    /\ result.op = "parseTUID" => (result.value = Some(Null) <=> ~isValidTUID(text))
    /\ result.op \in {"parseTUID", "isValidTUID"} => error = Null

\* C9 witness: parseTUID returned null for '0-0-0-invalid-tuid'.
C9_Witness ==
    /\ result = [op |-> "parseTUID", value |-> Some(Null)]
    /\ text = <<"0", "-", "0", "-", "0", "-", "i", "n", "v", "a", "l", "i", "d",
                "-", "t", "u", "i", "d">>

\* The value of a text of digits, from its last LimbDigits digits and the
\* digits before them.
RECURSIVE SmallValue(_)
SmallValue(f) ==
    IF f = <<>> THEN 0
    ELSE SmallValue(SubSeq(f, 1, Len(f) - 1)) * 10 + (IndexIn(Digits, f[Len(f)]) - 1)

DecimalValue(f) ==
    IF Len(f) <= LimbDigits THEN <<0, SmallValue(f)>>
    ELSE <<SmallValue(SubSeq(f, 1, Len(f) - LimbDigits)),
           SmallValue(SubSeq(f, Len(f) - LimbDigits + 1, Len(f)))>>

NoLeadingZero(f) == Len(f) = 1 \/ f[1] # "0"

\* C10: for a text that passes isValidTUID, parseTUID returns five fields:
\* the decimal values of the first three fields of the text, with no range
\* check, and the last two fields as they are; the decimal renderings of
\* the parsed fields joined by dashes are the text when its numeric fields
\* have no leading zeros.
C10_ParsedFields ==
    (result.op = "parseTUID" /\ isValidTUID(text)) =>
        /\ result.value # Some(Null)
        /\ LET p == result.value[1][1]
               f == Split(text, "-")
           IN  /\ DOMAIN p = {"timestamp", "machineId", "sequence",
                              "randomString1", "randomString2"}
               /\ p.timestamp = DecimalValue(f[1])
               /\ p.machineId = DecimalValue(f[2])
               /\ p.sequence = DecimalValue(f[3])
               /\ p.randomString1 = f[4]
               /\ p.randomString2 = f[5]
               /\ (NoLeadingZero(f[1]) /\ NoLeadingZero(f[2]) /\ NoLeadingZero(f[3]))
                      => Join(<<NumToString(p.timestamp), NumToString(p.machineId),
                                NumToString(p.sequence), p.randomString1,
                                p.randomString2>>, "-") = text

\* C10 witness: a valid text with machineId field 0005 and sequence field
\* 4096 was parsed to machineId 5 and sequence 4096.
C10_Witness ==
    /\ result.op = "parseTUID"
    /\ isValidTUID(text)
    /\ Split(text, "-")[2] = <<"0", "0", "0", "5">>
    /\ result.value[1][1].machineId = <<0, 5>>
    /\ result.value[1][1].sequence = <<0, 4096>>

\* C11: a call that reads now = lastTimestamp while sequence is 4095 sets
\* sequence to 0 and does not return; while it waits, a reading at or below
\* lastTimestamp keeps it waiting with the state as it is, and the first
\* reading above lastTimestamp makes it return that reading with sequence 0.
C11_OverflowPolicy ==
    [][\A i \in Instances :
        /\ (/\ pc[i] = "idle"
            /\ sequence[i] = 4095
            /\ sequence'[i] # sequence[i]
            /\ timestamp'[i] = lastTimestamp[i])
               => /\ sequence'[i] = 0
                  /\ pc'[i] = "wait"
                  /\ ret'.by # i
                  /\ lastTimestamp'[i] = lastTimestamp[i]
        /\ pc[i] = "wait"
               => IF NumLT(lastTimestamp[i], timestamp'[i])
                  THEN /\ pc'[i] = "idle"
                       /\ ret'.by = i
                       /\ ret'.timestamp = timestamp'[i]
                       /\ ret'.sequence = 0
                       /\ sequence'[i] = 0
                  ELSE /\ pc'[i] = "wait"
                       /\ ret'.by # i
                       /\ sequence'[i] = 0
                       /\ lastTimestamp'[i] = lastTimestamp[i]]_vars

\* C11 witness: a call returned from the wait after MaxReads or more
\* readings, on an instance that saw the clock go backward.
C11_Witness ==
    /\ ret.by = 1 /\ reads[1] = MaxReads /\ ~mono[1]
    /\ ret.sequence = 0 /\ ret.timestamp = lastTimestamp[1]

\* C13: a call that reads now # lastTimestamp (first call, later
\* millisecond, or earlier millisecond) sets sequence to 0 and lastTimestamp
\* to now and returns timestamp now with sequence 0, without an Error.
C13_ResetOnOtherReading ==
    [][\A i \in Instances :
        (/\ pc[i] = "idle"
         /\ timestamp'[i] # timestamp[i]
         /\ timestamp'[i] # lastTimestamp[i])
            => /\ sequence'[i] = 0
               /\ lastTimestamp'[i] = timestamp'[i]
               /\ pc'[i] = "idle"
               /\ ret'.by = i
               /\ ret'.timestamp = timestamp'[i]
               /\ ret'.sequence = 0
               /\ error' = Null]_vars

\* C13 witness: a call returned, with sequence 0, a timestamp lower than one
\* the instance had returned before.
C13_Witness ==
    /\ ret.by = 1 /\ ret.sequence = 0
    /\ NumLT(ret.timestamp, maxTs[1])
    /\ lastTimestamp[1] = ret.timestamp /\ sequence[1] = 0

\* What C14 says of an instance that exists, between calls.
StateInvariant(i) ==
    /\ sequence[i] \in 0 .. 4095
    /\ machineId[i] \in 0 .. 1023
    /\ pc[i] = "idle" =>
        /\ lastTimestamp[i] = <<0 - 1, Limb - 1>> <=> maxTs[i] = NoTimestamp
        /\ maxTs[i] # NoTimestamp =>
            /\ ret.by = i
            /\ lastTimestamp[i] = ret.timestamp
            /\ sequence[i] = ret.sequence

\* machineId is the value the constructor was given and never changes.
MachineIdFixed(i) ==
    /\ (pc[i] = "none" /\ pc'[i] # "none") => given' = Some(<<i, machineId'[i]>>)
    /\ pc[i] # "none" => machineId'[i] = machineId[i]

\* C14: for an instance that exists, sequence is in 0..4095 and machineId is
\* the value given at construction, in 0..1023; between calls lastTimestamp
\* is -1 exactly when no call has returned (maxTs is still -1), and
\* otherwise lastTimestamp and sequence are the timestamp and the sequence
\* of the identifier returned last.
C14_StateInvariant ==
    /\ [](\A i \in Instances : pc[i] # "none" => StateInvariant(i))
    /\ [][\A i \in Instances : MachineIdFixed(i)]_vars

\* C14 witness: the instance is between calls after a call that waited
\* through sequence overflow.
C14_Witness ==
    /\ pc[1] = "idle" /\ ret.by = 1 /\ reads[1] > 1
    /\ sequence[1] = 0 /\ lastTimestamp[1] = ret.timestamp
    /\ machineId[1] = 1023

\* C15 (as claimed): with the lock held over the clock reading, the sequence
\* update, the wait and the write of lastTimestamp, and a clock that never
\* went backward, the identifiers returned to all threads have pairwise
\* distinct (timestamp, sequence).
C15_LockedStepsSuffice ==
    mono[1] => \A a, b \in 1 .. Len(log) :
                  a # b => <<log[a].timestamp, log[a].sequence>>
                             # <<log[b].timestamp, log[b].sequence>>

\* C15 (amended): the same, when every call held the lock until its return
\* value was composed.
C15_LockedCallsSuffice ==
    (mono[1] /\ \A a \in 1 .. Len(log) : log[a].whole)
        => \A a, b \in 1 .. Len(log) :
              a < b => <<log[a].timestamp, log[a].sequence>>
                         # <<log[b].timestamp, log[b].sequence>>

\* C15 witness: MaxCalls calls, all holding the lock to the end and not all
\* by one thread, returned identifiers in one millisecond.
C15_Witness ==
    /\ mono[1] /\ Len(log) = MaxCalls
    /\ \A a \in 1 .. Len(log) : log[a].whole /\ log[a].timestamp = log[1].timestamp
    /\ log[1].thread # log[2].thread

\* The state of instance i.
InstanceState(i) == <<sequence[i], lastTimestamp[i], machineId[i]>>

\* A step of a generateV1 call of instance i: the instance exists and the
\* call read the clock, moved, or wrote a field.
GenerateStep(i) ==
    /\ pc[i] # "none"
    /\ <<sequence[i], lastTimestamp[i], timestamp[i], reads[i], pc[i]>>'
          # <<sequence[i], lastTimestamp[i], timestamp[i], reads[i], pc[i]>>

\* C16: a call of isValidTUID, getTUIDVersion or parseTUID, whatever it
\* returns, changes no instance's sequence, lastTimestamp or machineId; a
\* generateV1 step of one instance leaves its machineId and the state of
\* every other instance as they are.
C16_Frame ==
    [][/\ result' # result =>
            \A i \in Instances : InstanceState(i)' = InstanceState(i) /\ pc'[i] = pc[i]
       /\ \A i \in Instances :
            GenerateStep(i) =>
                /\ machineId'[i] = machineId[i]
                /\ \A j \in Instances \ {i} :
                        InstanceState(j)' = InstanceState(j) /\ pc'[j] = pc[j]]_vars

\* C16 witness: both instances exist and have different state, instance 2
\* returned the latest identifier, and parseTUID was then called on
\* 'invalid-tuid' and returned null.
C16_Witness ==
    /\ pc[1] = "idle" /\ pc[2] = "idle"
    /\ ret.by = 2
    /\ sequence[1] # sequence[2] /\ lastTimestamp[1] # lastTimestamp[2]
    /\ result = [op |-> "parseTUID", value |-> Some(Null)]
    /\ text = <<"i", "n", "v", "a", "l", "i", "d", "-", "t", "u", "i", "d">>

\* C17: in every identifier generateV1 returns, the fourth and the fifth
\* dash-separated field are each four characters of [a-z0-9], whatever
\* Math.random() returned.
C17_SegmentsWellFormed ==
    ret.by # 0 =>
        LET f == Split(ret.text, "-")
        IN  /\ Len(f) = 5
            /\ Len(f[4]) = 4 /\ \A k \in DOMAIN f[4] : IsLowerAlnum(f[4][k])
            /\ Len(f[5]) = 4 /\ \A k \in DOMAIN f[5] : IsLowerAlnum(f[5][k])

\* (timestamp, sequence) of a before that of b: timestamp first, then sequence.
PairLT(a, b) ==
    \/ NumLT(a.timestamp, b.timestamp)
    \/ a.timestamp = b.timestamp /\ a.sequence < b.sequence

\* C18: while the clock readings of the instance never decreased, each
\* identifier it returns has a (timestamp, sequence) strictly above that of
\* the identifier returned just before, hence above all earlier ones.
C18_PairsIncrease ==
    mono[1] =>
        /\ \A b \in 2 .. Len(log) : PairLT(log[b - 1], log[b])
        /\ \A a, b \in 1 .. Len(log) : a < b => PairLT(log[a], log[b])

\* C18 witness: under such a clock the instance returned sequence 4095, then
\* waited and returned sequence 0 of a later millisecond, then sequence 1.
C18_Witness ==
    /\ mono[1] /\ Len(log) = 3
    /\ log[1].sequence = 4095 /\ log[2].sequence = 0 /\ log[3].sequence = 1
    /\ NumLT(log[1].timestamp, log[2].timestamp)
    /\ log[2].timestamp = log[3].timestamp

\* C19: while the clock readings of the instance never decreased, the
\* timestamp it returns is the greatest it has returned, the sequence it
\* returns is the number of identifiers it returned before with that
\* timestamp (count includes the one just returned), and there are never
\* more than 4096 identifiers with one timestamp.
C19_SequenceCounts ==
    \A i \in Instances :
        (ret.by = i /\ mono[i]) =>
            /\ ret.timestamp = maxTs[i]
            /\ count[i] >= 1
            /\ ret.sequence = count[i] - 1
            /\ count[i] <= 4096

\* C19 witness: the instance returned the 4096th identifier of one
\* millisecond.
C19_Witness == ret.by = 1 /\ mono[1] /\ count[1] = 4096 /\ ret.sequence = 4095

====
